---- MODULE Spec2Model ----
(***************************************************************************)
(* The two PriorityQueue<pqueuetype> classes of the repository:            *)
(*   Q1_pqueue_list.h   a singly linked list kept in priority order        *)
(*   Q2_pqueue_heap.h   a binary heap stored in a Vector<cell>             *)
(* Both headers define a class of the same name, so a program is built     *)
(* against one of them; `variant' says which.  The variant "pair" runs the *)
(* same client calls against both classes side by side.                    *)
(*                                                                         *)
(* A client owns the queue objects of Queues, constructs, copies, assigns  *)
(* and destroys them, calls enqueue, dequeue, peek and clear and writes    *)
(* them to a stream with operator<<.  The value passed to the n-th enqueue *)
(* call of a run is n, so that values identify entries.                    *)
(***************************************************************************)
EXTENDS Integers, Sequences, FiniteSets, TLC

MaxEnq == 4        \* enqueue calls in a run of a program with one queue object
MaxCopyEnq == 2    \* enqueue calls in a run of a program with two queue objects
MaxTagEnq == 5     \* enqueue calls in a run whose clock advances at every call
MaxPri == 2        \* priorities are 1..MaxPri

Queues == {"a", "b"}
Priorities == 1..MaxPri
Addr == 1..(3 * MaxEnq)     \* addresses handed out by new

NULL == 0

VARIABLES
    variant,    \* the class the program uses: "list", "heap", or "pair" for both
    objs,       \* the queue objects the program declares
    live,       \* the queue objects that are constructed
    cells,      \* list: the allocated cells, address -> [data, priority, link]
    list,       \* list: object -> [head, tail, count]
    heap,       \* heap: object -> [pqueue, count]
    clk,        \* heap: the value the last call of clock() returned
    enqs,       \* the number of enqueue calls so far
    budget,     \* the number of enqueue calls the run makes at most
    lheld,      \* list: object -> entries enqueued and not yet removed
    hheld,      \* heap: object -> entries enqueued and not yet removed
    last,       \* the last call: [op, q, src, n], n the size() of q at the call
    lerr,       \* list: the last call ended in error()
    herr,       \* heap: the last call ended in error()
    lout,       \* list: the values the last call wrote to the stream
    hout,       \* heap: the values the last call wrote to the stream
    trap        \* the program has left defined behaviour and stopped

vars == <<variant, objs, live, cells, list, heap, clk, enqs, budget, lheld, hheld, last,
          lerr, herr, lout, hout, trap>>
lvars == <<cells, list, lheld, lerr, lout>>
hvars == <<heap, clk, hheld, herr, hout>>

UsesList == variant \in {"list", "pair"}
UsesHeap == variant \in {"heap", "pair"}

Budget == IF objs = {"a"} THEN MaxEnq ELSE MaxCopyEnq

Call(op, q, src) ==
    [op |-> op, q |-> q, src |-> src,
     n |-> IF UsesList THEN list[q].count ELSE heap[q].count]
Entry(value, priority) == [data |-> value, priority |-> priority]

(***************************************************************************)
(* Q1_pqueue_list.h                                                        *)
(***************************************************************************)

EmptyList == [head |-> NULL, tail |-> NULL, count |-> 0]

\* new cell: an address that is not allocated (the lowest one)
NewCell(cs) ==
    CHOOSE a \in Addr : a \notin DOMAIN cs /\ \A b \in 1..(a - 1) : b \in DOMAIN cs

\* delete cp
DeleteCell(cs, cp) == [a \in (DOMAIN cs) \ {cp} |-> cs[a]]

\* the outcome of a list method: the store, the object, the returned value,
\* whether error() was called, and whether a null or freed cell was read
LOut(cs, q, result, err, fault) ==
    [cells |-> cs, q |-> q, result |-> result, err |-> err, fault |-> fault]

Valid(cs, p) == p \in DOMAIN cs
\* ScanRank with > for >= : the scan stops in front of the cells of equal priority
RECURSIVE ScanRank_Strict(_, _, _)
ScanRank_Strict(cs, rank, priority) ==
    IF ~Valid(cs, rank) THEN NULL
    ELSE IF ~Valid(cs, cs[rank].link) THEN NULL
    ELSE IF priority > cs[cs[rank].link].priority
         THEN ScanRank_Strict(cs, cs[rank].link, priority)
         ELSE rank

\* ScanRank that compares with the priority of rank, not of its successor
RECURSIVE ScanRank_Own(_, _, _)
ScanRank_Own(cs, rank, priority) ==
    IF ~Valid(cs, rank) THEN NULL
    ELSE IF priority >= cs[rank].priority /\ cs[rank].link /= NULL
         THEN ScanRank_Own(cs, cs[rank].link, priority)
         ELSE rank

\* the scan of enqueue: while (priority>=rank->link->priority) rank=rank->link;
\* NULL when the loop reads through a null or freed link
RECURSIVE ScanRank(_, _, _)
ScanRank(cs, rank, priority) ==
    IF ~Valid(cs, rank) THEN NULL
    ELSE IF ~Valid(cs, cs[rank].link) THEN NULL
    ELSE IF priority >= cs[cs[rank].link].priority
         THEN ScanRank(cs, cs[rank].link, priority)
         ELSE rank

ListSize(q) == q.count
ListIsEmpty(q) == q.count = 0

\* ListEnqueue with <= for < in the test against the head: a new entry is put
\* in front of a head of equal priority
ListEnqueue_HeadTies(cs, q, value, priority) ==
    LET cp == NewCell(cs)
        Cell(lnk) == [data |-> value, priority |-> priority, link |-> lnk]
    IN  IF q.head = NULL
        THEN LOut(cs @@ (cp :> Cell(NULL)),
                  [head |-> cp, tail |-> cp, count |-> q.count + 1], 0, FALSE, FALSE)
        ELSE IF ~Valid(cs, q.head) THEN LOut(cs, q, 0, FALSE, TRUE)
        ELSE IF priority <= cs[q.head].priority
        THEN LOut(cs @@ (cp :> Cell(q.head)),
                  [head |-> cp, tail |-> q.tail, count |-> q.count + 1], 0, FALSE, FALSE)
        ELSE IF ~Valid(cs, q.tail) THEN LOut(cs, q, 0, FALSE, TRUE)
        ELSE IF priority >= cs[q.tail].priority
        THEN LOut([cs EXCEPT ![q.tail].link = cp] @@ (cp :> Cell(NULL)),
                  [head |-> q.head, tail |-> cp, count |-> q.count + 1], 0, FALSE, FALSE)
        ELSE LET rank == ScanRank(cs, q.head, priority)
             IN  IF rank = NULL THEN LOut(cs, q, 0, FALSE, TRUE)
                 ELSE LOut([cs EXCEPT ![rank].link = cp] @@ (cp :> Cell(cs[rank].link)),
                           [head |-> q.head, tail |-> q.tail, count |-> q.count + 1],
                           0, FALSE, FALSE)

\* enqueue: new cell, then the four cases for the place of the cell
ListEnqueue(cs, q, value, priority) ==
    LET cp == NewCell(cs)
        Cell(lnk) == [data |-> value, priority |-> priority, link |-> lnk]
    IN  IF q.head = NULL
        THEN LOut(cs @@ (cp :> Cell(NULL)),
                  [head |-> cp, tail |-> cp, count |-> q.count + 1], 0, FALSE, FALSE)
        ELSE IF ~Valid(cs, q.head) THEN LOut(cs, q, 0, FALSE, TRUE)
        ELSE IF priority < cs[q.head].priority
        THEN LOut(cs @@ (cp :> Cell(q.head)),
                  [head |-> cp, tail |-> q.tail, count |-> q.count + 1], 0, FALSE, FALSE)
        ELSE IF ~Valid(cs, q.tail) THEN LOut(cs, q, 0, FALSE, TRUE)
        ELSE IF priority >= cs[q.tail].priority
        THEN LOut([cs EXCEPT ![q.tail].link = cp] @@ (cp :> Cell(NULL)),
                  [head |-> q.head, tail |-> cp, count |-> q.count + 1], 0, FALSE, FALSE)
        ELSE LET rank == ScanRank(cs, q.head, priority)
             IN  IF rank = NULL THEN LOut(cs, q, 0, FALSE, TRUE)
                 ELSE LOut([cs EXCEPT ![rank].link = cp] @@ (cp :> Cell(cs[rank].link)),
                           [head |-> q.head, tail |-> q.tail, count |-> q.count + 1],
                           0, FALSE, FALSE)

\* ListDequeue without if (head==NULL) tail=NULL;
ListDequeue_KeepTail(cs, q) ==
    IF ListIsEmpty(q) THEN LOut(cs, q, 0, TRUE, FALSE)
    ELSE IF ~Valid(cs, q.head) THEN LOut(cs, q, 0, FALSE, TRUE)
    ELSE LET cp == q.head
         IN  LOut(DeleteCell(cs, cp),
                  [head |-> cs[cp].link, tail |-> q.tail, count |-> q.count - 1],
                  cs[cp].data, FALSE, FALSE)

\* dequeue: error() on an empty queue, else the head cell is unlinked and freed
ListDequeue(cs, q) ==
    IF ListIsEmpty(q) THEN LOut(cs, q, 0, TRUE, FALSE)
    ELSE IF ~Valid(cs, q.head) THEN LOut(cs, q, 0, FALSE, TRUE)
    ELSE LET cp == q.head
             nh == cs[cp].link
         IN  LOut(DeleteCell(cs, cp),
                  [head |-> nh, tail |-> IF nh = NULL THEN NULL ELSE q.tail,
                   count |-> q.count - 1],
                  cs[cp].data, FALSE, FALSE)
\* ListPeek without the check for an empty queue
ListPeek_NoCheck(cs, q) ==
    IF ~Valid(cs, q.head) THEN LOut(cs, q, 0, FALSE, FALSE)
    ELSE LOut(cs, q, cs[q.head].data, FALSE, FALSE)

ListPeek(cs, q) ==
    IF ListIsEmpty(q) THEN LOut(cs, q, 0, TRUE, FALSE)
    ELSE IF ~Valid(cs, q.head) THEN LOut(cs, q, 0, FALSE, TRUE)
    ELSE LOut(cs, q, cs[q.head].data, FALSE, FALSE)

\* ListClear with if for while: a single dequeue
ListClear_Once(cs, q) ==
    IF q.count /= 0 THEN ListDequeue(cs, q) ELSE LOut(cs, q, 0, FALSE, FALSE)

\* clear: while (count!=0) dequeue();
RECURSIVE ListClear(_, _)
ListClear(cs, q) ==
    IF q.count /= 0
    THEN LET d == ListDequeue(cs, q)
         IN  IF d.fault THEN d ELSE ListClear(d.cells, d.q)
    ELSE LOut(cs, q, 0, FALSE, FALSE)

\* the loop of deepCopy: for (cp=src.head; cp!=NULL; cp=cp->link) enqueue(...)
RECURSIVE DeepCopyLoop(_, _, _)
DeepCopyLoop(cs, q, cp) ==
    IF cp = NULL THEN LOut(cs, q, 0, FALSE, FALSE)
    ELSE IF ~Valid(cs, cp) THEN LOut(cs, q, 0, FALSE, TRUE)
    ELSE LET e == ListEnqueue(cs, q, cs[cp].data, cs[cp].priority)
         IN  IF e.fault THEN e ELSE DeepCopyLoop(e.cells, e.q, cs[cp].link)
\* ListDeepCopy that starts its loop at the second cell
ListDeepCopy_SkipHead(cs, src) ==
    DeepCopyLoop(cs, EmptyList, IF Valid(cs, src.head) THEN cs[src.head].link ELSE NULL)

\* ListDeepCopy that copies the pointers and the count instead of the cells
ListDeepCopy_Shallow(cs, src) == LOut(cs, src, 0, FALSE, FALSE)

ListDeepCopy(cs, src) == DeepCopyLoop(cs, EmptyList, src.head)

\* operator=: if (this!=&src) { clear(); deepCopy(src); }
ListAssign(cs, q, src, same) ==
    IF same THEN LOut(cs, q, 0, FALSE, FALSE)
    ELSE LET c == ListClear(cs, q)
         IN  IF c.fault THEN c ELSE ListDeepCopy(c.cells, src)

\* the values repeated dequeue returns until the queue is empty
RECURSIVE ListDrain(_, _)
ListDrain(cs, q) ==
    IF ListIsEmpty(q) THEN <<>>
    ELSE LET d == ListDequeue(cs, q)
         IN  IF d.fault THEN <<-1>> ELSE <<d.result>> \o ListDrain(d.cells, d.q)

\* the outcome of operator<<: the store, the queue that was written, the
\* values written, and whether a dequeue called error() or read a freed cell
DOut(cs, q, out, err, fault) ==
    [cells |-> cs, q |-> q, out |-> out, err |-> err, fault |-> fault]

\* the loop of operator<<: for (i=0;i<pqueue.size();i++) os<<tmp.dequeue()<<" ";
\* n is the number of rounds that are left
RECURSIVE ListDisplayLoop(_, _, _)
ListDisplayLoop(cs, tmp, n) ==
    IF n = 0 THEN DOut(cs, tmp, <<>>, FALSE, FALSE)
    ELSE LET d == ListDequeue(cs, tmp)
         IN  IF d.err \/ d.fault THEN DOut(d.cells, d.q, <<>>, d.err, d.fault)
             ELSE LET r == ListDisplayLoop(d.cells, d.q, n - 1)
                  IN  DOut(r.cells, r.q, <<d.result>> \o r.out, r.err, r.fault)
\* ListDisplay that takes the queue by reference and dequeues from it
ListDisplay_NoCopy(cs, q) ==
    LET r == ListDisplayLoop(cs, q, ListSize(q))
    IN  DOut(r.cells, r.q, r.out, r.err, r.fault)

\* operator<<(os, pqueue): the parameter is a copy of the argument, tmp is a
\* copy of the parameter, the loop dequeues from tmp, and the destructors of
\* tmp and of the parameter run when the function returns
ListDisplay(cs, q) ==
    LET pqueue == ListDeepCopy(cs, q)
    IN  IF pqueue.fault THEN DOut(pqueue.cells, q, <<>>, FALSE, TRUE)
        ELSE LET tmp == ListDeepCopy(pqueue.cells, pqueue.q)
             IN  IF tmp.fault THEN DOut(tmp.cells, q, <<>>, FALSE, TRUE)
                 ELSE LET r == ListDisplayLoop(tmp.cells, tmp.q, ListSize(pqueue.q))
                      IN  IF r.err \/ r.fault THEN DOut(r.cells, q, r.out, r.err, r.fault)
                          ELSE LET t == ListClear(r.cells, r.q)
                                   u == ListClear(t.cells, pqueue.q)
                               IN  DOut(u.cells, q, r.out, FALSE, t.fault \/ u.fault)

(***************************************************************************)
(* Q2_pqueue_heap.h                                                        *)
(* The Vector is a sequence; the cell the code calls pqueue[i] is          *)
(* At(pq, i), the (i+1)-th element of the sequence.                        *)
(***************************************************************************)

\* parent(0) is (SIZE_MAX)/2 in the code and -1 here: an index of no Vector
parent(n) == (n - 1) \div 2
leftchild(n) == 2 * n + 1
rightchild(n) == 2 * n + 2

EmptyHeap == [pqueue |-> <<>>, count |-> 0]

InRange(pq, i) == 0 <= i /\ i < Len(pq)
At(pq, i) == pq[i + 1]
Put(pq, i, c) == [pq EXCEPT ![i + 1] = c]
RemoveBack(pq) == SubSeq(pq, 1, Len(pq) - 1)

\* cell tmp=pqueue[i]; pqueue[i]=pqueue[j]; pqueue[j]=tmp;
Exchange(pq, i, j) == Put(Put(pq, i, At(pq, j)), j, At(pq, i))

\* the outcome of a heap method: the object, the returned value and whether
\* error() was called (by the method or by an index check of the Vector)
HOut(h, result, err) == [h |-> h, result |-> result, err |-> err]

HeapSize(h) == h.count
HeapIsEmpty(h) == h.count = 0

\* SiftUp with <= for < : a cell is promoted past a parent of equal priority
RECURSIVE SiftUp_Ties(_, _)
SiftUp_Ties(pq, anchor) ==
    IF anchor = 0 THEN [pqueue |-> pq, anchor |-> anchor]
    ELSE IF ~InRange(pq, anchor) \/ ~InRange(pq, parent(anchor))
    THEN [pqueue |-> pq, anchor |-> -1]
    ELSE IF At(pq, anchor).priority <= At(pq, parent(anchor)).priority
    THEN SiftUp_Ties(Exchange(pq, anchor, parent(anchor)), parent(anchor))
    ELSE [pqueue |-> pq, anchor |-> anchor]

\* the loop of enqueue; anchor -1 reports an index outside the Vector (the
\* loop tests anchor!=0 first, so that parent(0) is not computed)
RECURSIVE SiftUp(_, _)
SiftUp(pq, anchor) ==
    IF anchor = 0 THEN [pqueue |-> pq, anchor |-> anchor]
    ELSE IF ~InRange(pq, anchor) \/ ~InRange(pq, parent(anchor))
    THEN [pqueue |-> pq, anchor |-> -1]
    ELSE IF At(pq, anchor).priority < At(pq, parent(anchor)).priority
    THEN SiftUp(Exchange(pq, anchor, parent(anchor)), parent(anchor))
    ELSE [pqueue |-> pq, anchor |-> anchor]

HeapEnqueue(h, value, priority, rank) ==
    LET c == [data |-> value, priority |-> priority, rank |-> rank]
        s == SiftUp(Append(h.pqueue, c), h.count)
    IN  IF s.anchor = -1
        THEN HOut([pqueue |-> s.pqueue, count |-> h.count], 0, TRUE)
        ELSE HOut([pqueue |-> s.pqueue, count |-> h.count + 1], 0, FALSE)

\* the four conditions under which the loop of dequeue breaks
Stops(pq, anchor) ==
    LET a == At(pq, anchor)
        l == At(pq, leftchild(anchor))
        r == At(pq, rightchild(anchor))
    IN  \/ a.priority < l.priority /\ a.priority < r.priority
        \/ a.priority = l.priority /\ a.rank <= l.rank /\ a.priority < r.priority
        \/ a.priority < l.priority /\ a.priority = r.priority /\ a.rank <= r.rank
        \/ /\ a.priority = l.priority /\ a.priority = r.priority
           /\ a.rank <= l.rank /\ a.rank <= r.rank

\* the child the loop of dequeue exchanges the anchor with
SwapChild(pq, anchor) ==
    LET a == At(pq, anchor)
        l == At(pq, leftchild(anchor))
        r == At(pq, rightchild(anchor))
    IN  IF a.priority > l.priority \/ a.priority > r.priority
        THEN IF l.priority < r.priority THEN leftchild(anchor)
             ELSE IF l.priority > r.priority THEN rightchild(anchor)
             ELSE IF l.rank < r.rank THEN leftchild(anchor)
             ELSE rightchild(anchor)
        ELSE IF l.rank < r.rank THEN leftchild(anchor)
             ELSE rightchild(anchor)

\* while (count>=2*anchor+2) { ... }; err when a child index is outside the Vector
RECURSIVE SiftDown(_, _, _)
SiftDown(pq, count, anchor) ==
    IF count >= 2 * anchor + 2
    THEN IF ~InRange(pq, anchor) \/ ~InRange(pq, rightchild(anchor))
         THEN [pqueue |-> pq, err |-> TRUE]
         ELSE IF Stops(pq, anchor) THEN [pqueue |-> pq, err |-> FALSE]
         ELSE SiftDown(Exchange(pq, anchor, SwapChild(pq, anchor)), count,
                       SwapChild(pq, anchor))
    ELSE [pqueue |-> pq, err |-> FALSE]

\* the rounds of the loop of dequeue: the Vector and the anchor at each
\* evaluation of the loop body
RECURSIVE SiftDownSteps(_, _, _)
SiftDownSteps(pq, count, anchor) ==
    IF count >= 2 * anchor + 2
    THEN {[pqueue |-> pq, anchor |-> anchor]} \cup
         (IF ~InRange(pq, anchor) \/ ~InRange(pq, rightchild(anchor)) THEN {}
          ELSE IF Stops(pq, anchor) THEN {}
          ELSE SiftDownSteps(Exchange(pq, anchor, SwapChild(pq, anchor)), count,
                             SwapChild(pq, anchor)))
    ELSE {}

\* Strip that removes the last cell whether or not a duplicate was appended
Strip_Always(pq, count, completed) ==
    [pqueue |-> RemoveBack(pq), count |-> count - 1]

\* Strip that removes the duplicate and leaves count as it is
Strip_KeepCount(pq, count, completed) ==
    IF completed THEN [pqueue |-> RemoveBack(pq), count |-> count]
    ELSE [pqueue |-> pq, count |-> count]

\* Strip that decrements count and leaves the duplicate in the Vector
Strip_KeepSlot(pq, count, completed) ==
    IF completed THEN [pqueue |-> pq, count |-> count - 1]
    ELSE [pqueue |-> pq, count |-> count]

\* if (completed) { pqueue.removeBack(); count--; }
Strip(pq, count, completed) ==
    IF completed THEN [pqueue |-> RemoveBack(pq), count |-> count - 1]
    ELSE [pqueue |-> pq, count |-> count]

\* Relocate that never appends the duplicate
Relocate_NoDuplicate(h) ==
    [pqueue |-> RemoveBack(Put(h.pqueue, 0, At(h.pqueue, h.count - 1))),
     count |-> h.count - 1,
     completed |-> FALSE]

\* the else branch of dequeue up to its loop: the last cell moves to the root
\* and, when an even number of cells is left, a duplicate of it is appended
Relocate(h) ==
    LET count1 == h.count - 1
        pq1 == RemoveBack(Put(h.pqueue, 0, At(h.pqueue, count1)))
        completed == count1 % 2 = 0
    IN  [pqueue |-> IF completed THEN Append(pq1, At(pq1, 0)) ELSE pq1,
         count |-> IF completed THEN count1 + 1 ELSE count1,
         completed |-> completed]

HeapDequeue(h) ==
    IF HeapIsEmpty(h) THEN HOut(h, 0, TRUE)
    ELSE IF ~InRange(h.pqueue, 0) \/ ~InRange(h.pqueue, h.count - 1) THEN HOut(h, 0, TRUE)
    ELSE LET result == At(h.pqueue, 0).data
         IN  IF h.count = 1
             THEN HOut([pqueue |-> RemoveBack(h.pqueue), count |-> h.count - 1],
                       result, FALSE)
             ELSE LET m == Relocate(h)
                      s == SiftDown(m.pqueue, m.count, 0)
                  IN  IF s.err
                      THEN HOut([pqueue |-> s.pqueue, count |-> m.count], result, TRUE)
                      ELSE HOut(Strip(s.pqueue, m.count, m.completed), result, FALSE)
\* HeapPeek that reads the last cell of the Vector
HeapPeek_Last(h) ==
    IF HeapIsEmpty(h) THEN HOut(h, 0, TRUE)
    ELSE IF ~InRange(h.pqueue, h.count - 1) THEN HOut(h, 0, TRUE)
    ELSE HOut(h, At(h.pqueue, h.count - 1).data, FALSE)

HeapPeek(h) ==
    IF HeapIsEmpty(h) THEN HOut(h, 0, TRUE)
    ELSE IF ~InRange(h.pqueue, 0) THEN HOut(h, 0, TRUE)
    ELSE HOut(h, At(h.pqueue, 0).data, FALSE)

\* copy constructor and operator=: pqueue=src.pqueue; count=src.count;
HeapCopy(src) == [pqueue |-> src.pqueue, count |-> src.count]

\* the values repeated dequeue returns until the queue is empty
RECURSIVE HeapDrain(_)
HeapDrain(h) ==
    IF HeapIsEmpty(h) THEN <<>>
    ELSE LET d == HeapDequeue(h)
         IN  IF d.err THEN <<-1>> ELSE <<d.result>> \o HeapDrain(d.h)

\* the loop of operator<<: for (i=0;i<pqueue.size();i++) os<<tmp.dequeue()<<" ";
RECURSIVE HeapDisplayLoop(_, _)
HeapDisplayLoop(tmp, n) ==
    IF n = 0 THEN [h |-> tmp, out |-> <<>>, err |-> FALSE]
    ELSE LET d == HeapDequeue(tmp)
         IN  IF d.err THEN [h |-> d.h, out |-> <<>>, err |-> TRUE]
             ELSE LET r == HeapDisplayLoop(d.h, n - 1)
                  IN  [h |-> r.h, out |-> <<d.result>> \o r.out, err |-> r.err]

\* operator<<(os, pqueue): the parameter is a copy of the argument and tmp a
\* copy of the parameter; h is the queue that was written, as the call leaves it
HeapDisplay(h) ==
    LET pqueue == HeapCopy(h)
        tmp == HeapCopy(pqueue)
        r == HeapDisplayLoop(tmp, HeapSize(pqueue))
    IN  [h |-> h, out |-> r.out, err |-> r.err]

(***************************************************************************)
(* The client program                                                      *)
(***************************************************************************)

Init ==
    /\ variant \in {"list", "heap", "pair"}
    /\ objs \in IF variant = "pair" THEN {{"a"}} ELSE {{"a"}, {"a", "b"}}
    /\ live = {"a"}
    /\ cells = [a \in {} |-> 0]
    /\ list = [q \in Queues |-> EmptyList]
    /\ heap = [q \in Queues |-> EmptyHeap]
    /\ clk = 0
    /\ enqs = 0
    /\ budget = Budget
    /\ lheld = [q \in Queues |-> {}]
    /\ hheld = [q \in Queues |-> {}]
    /\ last = [op |-> "construct", q |-> "a", src |-> "a", n |-> 0]
    /\ lerr = FALSE
    /\ herr = FALSE
    /\ lout = <<>>
    /\ hout = <<>>
    /\ trap = FALSE

\* the entry of a set of held entries that carries the value
Holding(held, value) == {e \in held : e.data = value}

\* the effect of a call on the list object q, when the program uses the list
ListStep(q, o, held) ==
    IF UsesList
    THEN /\ cells' = o.cells
         /\ list' = [list EXCEPT ![q] = o.q]
         /\ lheld' = [lheld EXCEPT ![q] = IF o.err \/ o.fault THEN @ ELSE held]
         /\ lerr' = o.err
         /\ lout' = <<>>
    ELSE UNCHANGED lvars

\* the effect of a call on the heap object q, when the program uses the heap
HeapStep(q, o, held, now) ==
    IF UsesHeap
    THEN /\ heap' = [heap EXCEPT ![q] = o.h]
         /\ clk' = now
         /\ hheld' = [hheld EXCEPT ![q] = IF o.err THEN @ ELSE held]
         /\ herr' = o.err
         /\ hout' = <<>>
    ELSE UNCHANGED hvars

\* PriorityQueue<pqueuetype> q;
Construct(q) ==
    /\ ~trap
    /\ q \in objs \ live
    /\ live' = live \cup {q}
    /\ last' = Call("construct", q, q)
    /\ ListStep(q, LOut(cells, EmptyList, 0, FALSE, FALSE), {})
    /\ HeapStep(q, HOut(EmptyHeap, 0, FALSE), {}, clk)
    /\ UNCHANGED <<variant, objs, budget, enqs, trap>>

\* q.enqueue(value, p); the value of the n-th enqueue call of the run is n;
\* clock() returns the value it returned last or a later one
Enqueue(q, p) ==
    /\ ~trap
    /\ q \in live
    /\ enqs < budget
    /\ \E now \in {clk, clk + 1} :
         LET value == enqs + 1
             lo == ListEnqueue(cells, list[q], value, p)
             ho == HeapEnqueue(heap[q], value, p, now)
         IN  /\ enqs' = value
             /\ ListStep(q, lo, lheld[q] \cup {Entry(value, p)})
             /\ HeapStep(q, ho, hheld[q] \cup {Entry(value, p)}, now)
             /\ trap' = (UsesList /\ lo.fault)
    /\ last' = Call("enqueue", q, q)
    /\ UNCHANGED <<variant, objs, budget, live>>

\* q.dequeue();
Dequeue(q) ==
    /\ ~trap
    /\ q \in live
    /\ LET lo == ListDequeue(cells, list[q])
           ho == HeapDequeue(heap[q])
       IN  /\ ListStep(q, lo, lheld[q] \ Holding(lheld[q], lo.result))
           /\ HeapStep(q, ho, hheld[q] \ Holding(hheld[q], ho.result), clk)
           /\ trap' = (UsesList /\ lo.fault)
    /\ last' = Call("dequeue", q, q)
    /\ UNCHANGED <<variant, objs, budget, live, enqs>>

\* q.peek();
Peek(q) ==
    /\ ~trap
    /\ q \in live
    /\ LET lo == ListPeek(cells, list[q])
           ho == HeapPeek(heap[q])
       IN  /\ ListStep(q, lo, lheld[q])
           /\ HeapStep(q, ho, hheld[q], clk)
           /\ trap' = (UsesList /\ lo.fault)
    /\ last' = Call("peek", q, q)
    /\ UNCHANGED <<variant, objs, budget, live, enqs>>

\* q.clear(); only the list class has the method
Clear(q) ==
    /\ ~trap
    /\ variant = "list"
    /\ q \in live
    /\ LET lo == ListClear(cells, list[q])
       IN  /\ ListStep(q, lo, {})
           /\ trap' = lo.fault
    /\ last' = Call("clear", q, q)
    /\ UNCHANGED <<variant, objs, budget, live, enqs, hvars>>

\* PriorityQueue<pqueuetype> q(src);
CopyConstruct(q, src) ==
    /\ ~trap
    /\ q \in objs \ live
    /\ src \in live
    /\ live' = live \cup {q}
    /\ LET lo == ListDeepCopy(cells, list[src])
           ho == HOut(HeapCopy(heap[src]), 0, FALSE)
       IN  /\ ListStep(q, lo, lheld[src])
           /\ HeapStep(q, ho, hheld[src], clk)
           /\ trap' = (UsesList /\ lo.fault)
    /\ last' = Call("copy", q, src)
    /\ UNCHANGED <<variant, objs, budget, enqs>>

\* q = src; the operator= of the heap class has no return statement, so that
\* after its two assignments the call either comes back (the program does not
\* use its value) or the program stops
Assign(q, src) ==
    /\ ~trap
    /\ q \in live
    /\ src \in live
    /\ LET lo == ListAssign(cells, list[q], list[src], q = src)
           ho == HOut(HeapCopy(heap[src]), 0, FALSE)
       IN  /\ ListStep(q, lo, lheld[src])
           /\ HeapStep(q, ho, hheld[src], clk)
           /\ \E stops \in IF UsesHeap THEN BOOLEAN ELSE {FALSE} :
                trap' = (stops \/ (UsesList /\ lo.fault))
    /\ last' = Call("assign", q, src)
    /\ UNCHANGED <<variant, objs, budget, live, enqs>>

\* the destructor: the list class calls clear(), the heap class frees the Vector
Destroy(q) ==
    /\ ~trap
    /\ q \in live
    /\ live' = live \ {q}
    /\ LET lo == ListClear(cells, list[q])
       IN  /\ ListStep(q, lo, {})
           /\ HeapStep(q, HOut(EmptyHeap, 0, FALSE), {}, clk)
           /\ trap' = (UsesList /\ lo.fault)
    /\ last' = Call("destroy", q, q)
    /\ UNCHANGED <<variant, objs, budget, enqs>>

\* os << q;
Display(q) ==
    /\ ~trap
    /\ q \in live
    /\ \E lo \in {IF UsesList THEN ListDisplay(cells, list[q])
                            ELSE DOut(cells, list[q], <<>>, FALSE, FALSE)},
          ho \in {IF UsesHeap THEN HeapDisplay(heap[q])
                            ELSE [h |-> heap[q], out |-> <<>>, err |-> FALSE]} :
         /\ IF UsesList
            THEN /\ cells' = lo.cells
                 /\ list' = [list EXCEPT ![q] = lo.q]
                 /\ lerr' = lo.err
                 /\ lout' = lo.out
                 /\ UNCHANGED lheld
            ELSE UNCHANGED lvars
         /\ IF UsesHeap
            THEN /\ heap' = [heap EXCEPT ![q] = ho.h]
                 /\ herr' = ho.err
                 /\ hout' = ho.out
                 /\ UNCHANGED <<clk, hheld>>
            ELSE UNCHANGED hvars
         /\ trap' = (UsesList /\ lo.fault)
    /\ last' = Call("display", q, q)
    /\ UNCHANGED <<variant, objs, budget, live, enqs>>

Next ==
    \/ \E q \in Queues : Construct(q)
    \/ \E q \in Queues, p \in Priorities : Enqueue(q, p)
    \/ \E q \in Queues : Dequeue(q)
    \/ \E q \in Queues : Peek(q)
    \/ \E q \in Queues : Clear(q)
    \/ \E q \in Queues, src \in Queues : CopyConstruct(q, src)
    \/ \E q \in Queues, src \in Queues : Assign(q, src)
    \/ \E q \in Queues : Destroy(q)
    \/ \E q \in Queues : Display(q)

Spec == Init /\ [][Next]_vars

(***************************************************************************)
(* The runs of a program that uses one queue of the heap class, calls only *)
(* enqueue and dequeue, and in which clock() returns a later value at      *)
(* every call, so that the ranks of the cells increase strictly.           *)
(***************************************************************************)
TagInit ==
    /\ variant = "heap"
    /\ objs = {"a"}
    /\ live = {"a"}
    /\ cells = [a \in {} |-> 0]
    /\ list = [q \in Queues |-> EmptyList]
    /\ heap = [q \in Queues |-> EmptyHeap]
    /\ clk = 0
    /\ enqs = 0
    /\ budget = MaxTagEnq
    /\ lheld = [q \in Queues |-> {}]
    /\ hheld = [q \in Queues |-> {}]
    /\ last = [op |-> "construct", q |-> "a", src |-> "a", n |-> 0]
    /\ lerr = FALSE
    /\ herr = FALSE
    /\ lout = <<>>
    /\ hout = <<>>
    /\ trap = FALSE

TagEnqueue(q, p) == Enqueue(q, p) /\ clk' = clk + 1

TagNext ==
    \/ \E q \in Queues, p \in Priorities : TagEnqueue(q, p)
    \/ \E q \in Queues : Dequeue(q)

TagSpec == TagInit /\ [][TagNext]_vars

(***************************************************************************)
(* Vocabulary of the properties                                            *)
(***************************************************************************)

\* the priority a held value was enqueued with (0 when it is not held)
PriOf(held, value) ==
    IF Holding(held, value) = {} THEN 0
    ELSE (CHOOSE e \in Holding(held, value) : TRUE).priority

NonDecreasing(s) == \A i \in 1..(Len(s) - 1) : s[i] <= s[i + 1]

\* e comes out before f: lower priority, or the same priority and enqueued earlier
Before(e, f) ==
    e.priority < f.priority \/ (e.priority = f.priority /\ e.data <= f.data)

MinEntry(held) == CHOOSE e \in held : \A f \in held : Before(e, f)

\* the entries on the chain of at most n cells that starts at cell p
RECURSIVE Chain(_, _, _)
Chain(cs, p, n) ==
    IF n = 0 \/ ~Valid(cs, p) THEN <<>>
    ELSE <<Entry(cs[p].data, cs[p].priority)>> \o Chain(cs, cs[p].link, n - 1)

ChainEntries(cs, q) ==
    LET c == Chain(cs, q.head, Cardinality(DOMAIN cs)) IN {c[i] : i \in 1..Len(c)}

SeqToSet(s) == {s[i] : i \in 1..Len(s)}

HasTie(held) == \E e, f \in held : e /= f /\ e.priority = f.priority

\* the ordering relation of heap cells: a is not greater than b
NotGreater(a, b) ==
    a.priority < b.priority \/ (a.priority = b.priority /\ a.rank <= b.rank)

\* every cell but the root is not smaller than its parent
HeapOrdered(pq) ==
    \A i \in 1..(Len(pq) - 1) : NotGreater(At(pq, parent(i)), At(pq, i))

\* the number of cells of the Vector that equal c
Occurrences(pq, c) == Cardinality({i \in 1..Len(pq) : pq[i] = c})

(***************************************************************************)
(* C1  Heap, order property: in every state reached by enqueue and dequeue *)
(* calls, draining the queue by repeated dequeue emits entries whose       *)
(* priorities are non-decreasing.                                          *)
(***************************************************************************)
C1_HeapDrainOrdered ==
    UsesHeap =>
        \A q \in live :
            LET d == HeapDrain(heap[q])
            IN  NonDecreasing([i \in 1..Len(d) |-> PriOf(hheld[q], d[i])])

(***************************************************************************)
(* C2  Heap, tie FIFO property: of two entries of equal priority held by a *)
(* queue, the one enqueued first is dequeued first.                        *)
(***************************************************************************)
C2_HeapTieFifo ==
    UsesHeap =>
        \A q \in live :
            LET d == HeapDrain(heap[q])
            IN  \A i, j \in 1..Len(d) :
                    (i < j /\ PriOf(hheld[q], d[i]) = PriOf(hheld[q], d[j]))
                        => d[i] < d[j]

(***************************************************************************)
(* C3  List: in every reachable state with size() > 0, dequeue succeeds,   *)
(* returns the value of the held entry that is minimal under (priority,    *)
(* enqueue order) and leaves exactly the other held entries in the list.   *)
(***************************************************************************)
C3_ListDequeueMin ==
    UsesList =>
        \A q \in live :
            ListSize(list[q]) > 0 =>
                LET d == ListDequeue(cells, list[q])
                IN  /\ ~d.err /\ ~d.fault
                    /\ lheld[q] /= {}
                    /\ d.result = MinEntry(lheld[q]).data
                    /\ ChainEntries(d.cells, d.q) = lheld[q] \ {MinEntry(lheld[q])}

C3_Witness ==
    /\ variant = "list"
    /\ last.op = "dequeue" /\ ~lerr
    /\ ListSize(list[last.q]) >= 2
    /\ HasTie(lheld[last.q])
    /\ \E e \in lheld[last.q] : e.priority /= MinEntry(lheld[last.q]).priority

(***************************************************************************)
(* C4  The list and the heap class driven by the same calls: size() and    *)
(* isEmpty() agree after every call, both signal an error or neither, and  *)
(* the next peek and the next dequeue return the same value from both.     *)
(***************************************************************************)
C4_ListHeapEquivalent ==
    variant = "pair" =>
        /\ lerr = herr
        /\ \A q \in live :
            /\ ListSize(list[q]) = HeapSize(heap[q])
            /\ ListIsEmpty(list[q]) = HeapIsEmpty(heap[q])
            /\ ListPeek(cells, list[q]).err = HeapPeek(heap[q]).err
            /\ ListPeek(cells, list[q]).result = HeapPeek(heap[q]).result
            /\ ListDequeue(cells, list[q]).err = HeapDequeue(heap[q]).err
            /\ ListDequeue(cells, list[q]).result = HeapDequeue(heap[q]).result

(***************************************************************************)
(* C5  Count invariant, both classes: size() is the number of entries      *)
(* enqueued and not yet removed, and isEmpty() is true exactly when        *)
(* size() is 0.                                                            *)
(***************************************************************************)
C5_CountInvariant ==
    \A q \in live :
        /\ UsesList => /\ ListSize(list[q]) = Cardinality(lheld[q])
                       /\ ListIsEmpty(list[q]) <=> (ListSize(list[q]) = 0)
        /\ UsesHeap => /\ HeapSize(heap[q]) = Cardinality(hheld[q])
                       /\ HeapIsEmpty(heap[q]) <=> (HeapSize(heap[q]) = 0)

\* a dequeue of the heap left two entries, so that its duplicate fix-up ran
C5_Witness ==
    /\ variant = "heap"
    /\ last.op = "dequeue" /\ ~herr
    /\ HeapSize(heap[last.q]) = 2
    /\ Cardinality(hheld[last.q]) = 2

(***************************************************************************)
(* C6  Heap, no leftover duplicate slot: between calls the length of the   *)
(* Vector equals count; inside a dequeue the Vector holds one cell more    *)
(* than the entries that remain exactly when the duplicate was appended,   *)
(* and the call ends with the Vector as long as the entries that remain.   *)
(***************************************************************************)
C6_NoLeftoverSlot ==
    UsesHeap =>
        \A q \in live :
            /\ Len(heap[q].pqueue) = heap[q].count
            /\ heap[q].count >= 2 =>
                 LET m == Relocate(heap[q])
                     d == HeapDequeue(heap[q])
                 IN  /\ Len(m.pqueue) = heap[q].count - 1 + (IF m.completed THEN 1 ELSE 0)
                     /\ m.completed <=> ((heap[q].count - 1) % 2 = 0)
                     /\ ~d.err
                     /\ Len(d.h.pqueue) = heap[q].count - 1
                     /\ d.h.count = heap[q].count - 1

C6_Witness ==
    /\ UsesHeap
    /\ last.op = "dequeue" /\ ~herr
    /\ heap[last.q].count = 2
    /\ Len(heap[last.q].pqueue) = 2
    /\ enqs > 2

(***************************************************************************)
(* C7  Empty-queue failure, both classes: dequeue and peek called with     *)
(* size() = 0 signal the error and leave the cells, head, tail, count and  *)
(* the Vector as they were; a call signals the error in no other case.     *)
(***************************************************************************)
C7_EmptyFailure ==
    [][ LET q == last'.q
            empties == last'.op \in {"dequeue", "peek"}
        IN  /\ UsesList =>
                 /\ lerr' <=> (empties /\ ListSize(list[q]) = 0)
                 /\ lerr' => (cells' = cells /\ list' = list /\ lheld' = lheld)
            /\ UsesHeap =>
                 /\ herr' <=> (empties /\ HeapSize(heap[q]) = 0)
                 /\ herr' => (heap' = heap /\ hheld' = hheld)
      ]_vars

\* a dequeue has failed on a queue that was filled and drained
C7_Witness ==
    /\ last.op = "dequeue"
    /\ enqs >= 2
    /\ \/ UsesList /\ lerr /\ list[last.q] = EmptyList
       \/ UsesHeap /\ herr /\ heap[last.q] = EmptyHeap

(***************************************************************************)
(* C8  Peek, both classes: a peek on a non-empty queue returns the value   *)
(* the dequeue that follows it returns, leaves the queue as it was, and a  *)
(* second peek returns the same value.                                     *)
(***************************************************************************)
C8_PeekIsNextDequeue ==
    [][ last'.op = "peek" =>
          LET q == last'.q
          IN  /\ (UsesList /\ ~lerr') =>
                   /\ cells' = cells /\ list' = list
                   /\ ~ListDequeue(cells', list'[q]).err
                   /\ ListPeek(cells, list[q]).result
                        = ListDequeue(cells', list'[q]).result
                   /\ ListPeek(cells', list'[q]).result
                        = ListPeek(cells, list[q]).result
              /\ (UsesHeap /\ ~herr') =>
                   /\ heap' = heap
                   /\ ~HeapDequeue(heap'[q]).err
                   /\ HeapPeek(heap[q]).result = HeapDequeue(heap'[q]).result
                   /\ HeapPeek(heap'[q]).result = HeapPeek(heap[q]).result
      ]_vars

C8_Witness ==
    /\ last.op = "peek"
    /\ \/ UsesList /\ ~lerr /\ ListSize(list[last.q]) >= 3
       \/ UsesHeap /\ ~herr /\ HeapSize(heap[last.q]) >= 3

C10_CopyIndependent ==
    [][ last'.op \in {"enqueue", "dequeue", "clear"} =>
          \A o \in live \ {last'.q} :
              /\ UsesList =>
                   /\ ListSize(list'[o]) = ListSize(list[o])
                   /\ ListDrain(cells', list'[o]) = ListDrain(cells, list[o])
              /\ UsesHeap =>
                   /\ HeapSize(heap'[o]) = HeapSize(heap[o])
                   /\ HeapDrain(heap'[o]) = HeapDrain(heap[o])
      ]_vars

\* a queue and its copy hold a common entry and one of them was changed since
C10_Witness ==
    /\ live = {"a", "b"}
    /\ last.op \in {"enqueue", "dequeue"}
    /\ \/ /\ variant = "list"
          /\ lheld["a"] \cap lheld["b"] /= {}
          /\ lheld["a"] /= lheld["b"]
       \/ /\ variant = "heap"
          /\ hheld["a"] \cap hheld["b"] /= {}
          /\ hheld["a"] /= hheld["b"]

(***************************************************************************)
(* C11  Self-assignment, both classes: q = q returns to the caller and     *)
(* leaves the cells, head, tail, count and the Vector of q, and so its     *)
(* size and its drain order, as they were.                                 *)
(***************************************************************************)
C11_SelfAssignNoOp ==
    [][ (last'.op = "assign" /\ last'.q = last'.src) =>
          /\ ~trap'
          /\ UsesList =>
               /\ ~lerr'
               /\ ListSize(list'[last'.q]) = ListSize(list[last'.q])
               /\ ListDrain(cells', list'[last'.q]) = ListDrain(cells, list[last'.q])
               /\ cells' = cells /\ list' = list
          /\ UsesHeap =>
               /\ ~herr'
               /\ HeapSize(heap'[last'.q]) = HeapSize(heap[last'.q])
               /\ HeapDrain(heap'[last'.q]) = HeapDrain(heap[last'.q])
      ]_vars

(***************************************************************************)
(* C12  List, clear: a call of clear() returns and leaves head = tail =    *)
(* NULL, count = 0 and no cell allocated that is not on the chain of a     *)
(* queue; dequeue and peek then signal the error, and enqueue calls that   *)
(* follow give the size and the drain order they give on a newly           *)
(* constructed queue.                                                      *)
(***************************************************************************)
\* the queue after enqueue(v, ps[1]), enqueue(v + 1, ps[2]), ...
RECURSIVE EnqueueAll(_, _, _, _)
EnqueueAll(cs, q, ps, v) ==
    IF ps = <<>> THEN LOut(cs, q, 0, FALSE, FALSE)
    ELSE LET e == ListEnqueue(cs, q, v, Head(ps))
         IN  IF e.fault THEN e ELSE EnqueueAll(e.cells, e.q, Tail(ps), v + 1)

\* the sequences of priorities of up to three enqueue calls
Replays == UNION {[1..k -> Priorities] : k \in 0..3}

\* the addresses of the chain of at most n cells that starts at cell p
RECURSIVE ChainAddrs(_, _, _)
ChainAddrs(cs, p, n) ==
    IF n = 0 \/ ~Valid(cs, p) THEN {}
    ELSE {p} \cup ChainAddrs(cs, cs[p].link, n - 1)

C12_ListClear ==
    (UsesList /\ last.op = "clear") =>
        LET q == last.q
            fresh == [a \in {} |-> 0]
            owned(o) == ChainAddrs(cells, list[o].head, Cardinality(DOMAIN cells))
        IN  /\ ~trap /\ ~lerr
            /\ list[q] = EmptyList
            /\ DOMAIN cells = UNION {owned(o) : o \in live}
            /\ ListDequeue(cells, list[q]).err
            /\ ListPeek(cells, list[q]).err
            /\ \A ps \in Replays :
                  LET c == EnqueueAll(cells, list[q], ps, 1)
                      n == EnqueueAll(fresh, EmptyList, ps, 1)
                  IN  /\ ~c.fault
                      /\ ListSize(c.q) = ListSize(n.q)
                      /\ ListDrain(c.cells, c.q) = ListDrain(n.cells, n.q)

\* clear() was called on a queue of at least two entries
C12_Witness ==
    /\ variant = "list"
    /\ last.op = "clear"
    /\ last.n >= 2
    /\ list[last.q] = EmptyList
    /\ ~trap

(***************************************************************************)
(* C13  Heap, clear: a program that uses the heap class can call clear()   *)
(* on every queue it has constructed (and the call leaves count = 0 and    *)
(* the Vector empty).                                                      *)
(***************************************************************************)
C13_HeapClear ==
    (variant = "heap" /\ ~trap) => \A q \in live : ENABLED Clear(q)

(***************************************************************************)
(* C14  Heap, sequence tags: of two cells of a queue, the one enqueued     *)
(* later has the strictly greater rank, so that no two cells of a queue    *)
(* have the same rank.                                                     *)
(***************************************************************************)
C14_TagsIncrease ==
    UsesHeap =>
        \A q \in live :
            \A i, j \in 1..Len(heap[q].pqueue) :
                heap[q].pqueue[i].data < heap[q].pqueue[j].data
                    => heap[q].pqueue[i].rank < heap[q].pqueue[j].rank

C16_HeapInvariant ==
    \A q \in live : HeapOrdered(heap[q].pqueue)

(***************************************************************************)
(* C17  Heap, sift-down step: in each round of the loop of dequeue the     *)
(* loop breaks exactly when the anchor is not greater than both children;  *)
(* otherwise the anchor is exchanged with the child that is the smaller    *)
(* under the ordering relation, never with a child whose priority is       *)
(* strictly greater than the priority of the other child.                  *)
(***************************************************************************)
C17_SiftDownStep ==
    \A q \in live :
        heap[q].count >= 2 =>
            LET m == Relocate(heap[q])
            IN  \A st \in SiftDownSteps(m.pqueue, m.count, 0) :
                    InRange(st.pqueue, rightchild(st.anchor)) =>
                        LET a == At(st.pqueue, st.anchor)
                            l == At(st.pqueue, leftchild(st.anchor))
                            r == At(st.pqueue, rightchild(st.anchor))
                            c == At(st.pqueue, SwapChild(st.pqueue, st.anchor))
                            o == IF SwapChild(st.pqueue, st.anchor) = leftchild(st.anchor)
                                 THEN r ELSE l
                        IN  /\ Stops(st.pqueue, st.anchor)
                                 <=> (NotGreater(a, l) /\ NotGreater(a, r))
                            /\ ~Stops(st.pqueue, st.anchor) =>
                                 /\ NotGreater(c, o)
                                 /\ ~(c.priority > o.priority)

(***************************************************************************)
(* C18  Heap, enqueue keeps the heap invariant: when the Vector satisfies  *)
(* the heap invariant and the new rank is greater than every rank in it,   *)
(* enqueue leaves a Vector that satisfies the heap invariant, and the      *)
(* cells it has moved down had a strictly greater priority than the new    *)
(* one.                                                                    *)
(***************************************************************************)
C18_EnqueueKeepsInvariant ==
    [][ (last'.op = "enqueue" /\ UsesHeap) =>
          LET pq == heap[last'.q].pqueue
              nq == heap'[last'.q].pqueue
          IN  (HeapOrdered(pq) /\ \A i \in 1..Len(pq) : pq[i].rank < clk') =>
                  /\ ~herr'
                  /\ Len(nq) = Len(pq) + 1
                  /\ HeapOrdered(nq)
                  /\ \A i \in 1..Len(pq) :
                        nq[i] /= pq[i] =>
                            \E j \in 1..Len(nq) :
                                /\ nq[j].data = enqs'
                                /\ pq[i].priority > nq[j].priority
      ]_vars

\* the cell of the last enqueue has the greatest rank and was promoted to
\* the root of a heap of at least three cells that satisfies the invariant
C18_Witness ==
    /\ UsesHeap
    /\ last.op = "enqueue" /\ ~herr
    /\ heap[last.q].count >= 3
    /\ HeapOrdered(heap[last.q].pqueue)
    /\ At(heap[last.q].pqueue, 0).data = enqs
    /\ \A i \in 2..Len(heap[last.q].pqueue) :
          heap[last.q].pqueue[i].rank < At(heap[last.q].pqueue, 0).rank

(***************************************************************************)
(* C19  Heap, index safety: in dequeue, count is odd whenever the body of  *)
(* the loop runs and the anchor and both its children are indices of the   *)
(* Vector; no call of dequeue on a non-empty queue and no call of enqueue  *)
(* reads or writes outside the Vector (parent(0) is such an index).        *)
(***************************************************************************)
C19_IndexSafe ==
    UsesHeap =>
        \A q \in live :
            /\ heap[q].count >= 2 =>
                 LET m == Relocate(heap[q])
                 IN  /\ \A st \in SiftDownSteps(m.pqueue, m.count, 0) :
                           /\ m.count % 2 = 1
                           /\ InRange(st.pqueue, st.anchor)
                           /\ InRange(st.pqueue, leftchild(st.anchor))
                           /\ InRange(st.pqueue, rightchild(st.anchor))
                     /\ ~SiftDown(m.pqueue, m.count, 0).err
            /\ heap[q].count >= 1 => ~HeapDequeue(heap[q]).err
            /\ ~InRange(heap[q].pqueue, parent(0))
            /\ \A p \in Priorities : ~HeapEnqueue(heap[q], 0, p, clk).err

\* a dequeue on a queue of four cells: the loop body ran on three cells
C19_Witness ==
    /\ UsesHeap
    /\ last.op = "dequeue" /\ ~herr
    /\ last.n = 4
    /\ heap[last.q].count = 3

(***************************************************************************)
(* C20  Heap, dequeue keeps the multiset of cells: a dequeue on a          *)
(* non-empty queue returns the data of the root and leaves in the Vector   *)
(* every cell as often as before, the root cell once less; when the        *)
(* duplicate was appended, the cell removed at the end equals the cell     *)
(* that was moved to the root.                                             *)
(***************************************************************************)
C20_DequeueKeepsCells ==
    UsesHeap =>
        \A q \in live :
            heap[q].count >= 1 =>
                LET pq == heap[q].pqueue
                    d == HeapDequeue(heap[q])
                    root == At(pq, 0)
                IN  /\ ~d.err
                    /\ d.result = root.data
                    /\ SeqToSet(d.h.pqueue) \subseteq SeqToSet(pq)
                    /\ \A c \in SeqToSet(pq) :
                          Occurrences(d.h.pqueue, c)
                            = Occurrences(pq, c) - (IF c = root THEN 1 ELSE 0)
                    /\ heap[q].count >= 2 =>
                          LET m == Relocate(heap[q])
                              s == SiftDown(m.pqueue, m.count, 0)
                          IN  m.completed =>
                                At(s.pqueue, m.count - 1) = At(m.pqueue, 0)

\* a dequeue on a queue of three cells with a tie: the duplicate was
\* appended and removed
C20_Witness ==
    /\ UsesHeap
    /\ last.op = "dequeue" /\ ~herr
    /\ last.n = 3
    /\ Len(heap[last.q].pqueue) = 2
    /\ HasTie(hheld[last.q])

(***************************************************************************)
(* C21  List, sortedness: in every state reached by enqueue, dequeue,      *)
(* clear, copy and assignment calls, the priorities of the cells read from *)
(* head to tail are non-decreasing, and cells of equal priority appear in  *)
(* the order their entries were enqueued.                                  *)
(***************************************************************************)
\* the entries of the queue read from head to tail
ListEntries(cs, q) == Chain(cs, q.head, Cardinality(DOMAIN cs))

C21_ListSorted ==
    UsesList =>
        \A q \in live :
            LET c == ListEntries(cells, list[q])
            IN  /\ NonDecreasing([i \in 1..Len(c) |-> c[i].priority])
                /\ \A i, j \in 1..Len(c) :
                      (i < j /\ c[i].priority = c[j].priority) => c[i].data < c[j].data

\* an enqueue put its cell between two cells of a chain that holds a tie
C21_Witness ==
    /\ variant = "list"
    /\ last.op = "enqueue" /\ ~trap
    /\ LET c == ListEntries(cells, list[last.q])
       IN  /\ Len(c) >= 3
           /\ HasTie(SeqToSet(c))
           /\ \E i \in 2..(Len(c) - 1) : c[i].data = enqs

(***************************************************************************)
(* C22  List, structure: in every reachable state head is NULL exactly     *)
(* when tail is NULL and exactly when count is 0; the cells reached from   *)
(* head by the links are allocated and are count many; and when the queue  *)
(* is not empty, tail is the last of them and its link is NULL.            *)
(***************************************************************************)
\* the addresses of the cells reached from cell p in at most n steps
RECURSIVE Path(_, _, _)
Path(cs, p, n) ==
    IF n = 0 \/ ~Valid(cs, p) THEN <<>>
    ELSE <<p>> \o Path(cs, cs[p].link, n - 1)

C22_ListStructure ==
    UsesList =>
        \A q \in live :
            LET l == list[q]
                path == Path(cells, l.head, Cardinality(DOMAIN cells) + 1)
            IN  /\ (l.head = NULL) <=> (l.tail = NULL)
                /\ (l.head = NULL) <=> (l.count = 0)
                /\ Len(path) = l.count
                /\ l.count > 0 =>
                      /\ Valid(cells, l.head)
                      /\ path[Len(path)] = l.tail
                      /\ cells[l.tail].link = NULL

\* a dequeue took the only cell of a queue that was made as a copy, while
\* the queue it was copied from holds two cells
C22_Witness ==
    /\ variant = "list"
    /\ last.op = "dequeue" /\ ~lerr /\ ~trap
    /\ last.n = 1
    /\ list[last.q] = EmptyList
    /\ \E o \in live \ {last.q} :
          /\ list[o].count = 2
          /\ list[o].head /= list[o].tail

(***************************************************************************)
(* C23  List, scan of enqueue: when the queue is not empty and the         *)
(* priority is at least the priority of the head and less than the         *)
(* priority of the tail, enqueue takes its last branch, the scan stops at  *)
(* a cell whose link is an allocated cell, so that no NULL link is read,   *)
(* the new cell is linked in front of that successor and not behind the    *)
(* tail, and head and tail are left as they were.                          *)
(***************************************************************************)
\* enqueue with this priority goes to the branch that scans the chain
Interior(cs, q, priority) ==
    /\ q.head /= NULL
    /\ ~(priority < cs[q.head].priority)
    /\ ~(priority >= cs[q.tail].priority)

C23_ScanSafe ==
    UsesList =>
        \A q \in live, p \in Priorities :
            LET l == list[q] IN
            /\ Interior(cells, l, p) <=>
                  (l.count > 0 /\ p >= cells[l.head].priority /\ p < cells[l.tail].priority)
            /\ Interior(cells, l, p) =>
                  LET rank == ScanRank(cells, l.head, p)
                      cp == NewCell(cells)
                      e == ListEnqueue(cells, l, enqs + 1, p)
                  IN  /\ rank /= NULL
                      /\ Valid(cells, rank)
                      /\ Valid(cells, cells[rank].link)
                      /\ rank /= l.tail
                      /\ ~e.fault /\ ~e.err
                      /\ e.cells[rank].link = cp
                      /\ e.cells[cp].link = cells[rank].link
                      /\ e.cells[cp].link /= NULL
                      /\ e.q.head = l.head
                      /\ e.q.tail = l.tail
                      /\ e.cells[l.tail].link = NULL

\* an enqueue whose scan went past the second cell: the new cell is the
\* third of four and the tail is the cell that was the tail before
C23_Witness ==
    /\ variant = "list"
    /\ last.op = "enqueue" /\ ~trap
    /\ last.n = 3
    /\ LET c == ListEntries(cells, list[last.q])
       IN  /\ Len(c) = 4
           /\ c[3].data = enqs
           /\ c[3].priority < c[4].priority
           /\ c[4].data < enqs

====
